---- MODULE Spec2Model ----
(***************************************************************************)
(* The transactional client core of client/kv.go: KV.RunTransaction runs a *)
(* caller's closure ("retryable") against a child handle whose sender is a *)
(* txnSender, inside util.RetryWithBackoff, commits on success, retries on *)
(* the four recoverable errors and aborts otherwise.                       *)
(*                                                                         *)
(* The routing sender (the wrapped KVSender), the closure and the server's *)
(* responses are the environment: every choice they can make is drawn      *)
(* with \E.  txnSender, singleCallSender, util.RetryWithBackoff and the    *)
(* checksum of proto.Value are not part of the sources at hand and are     *)
(* modelled from the specification.                                        *)
(***************************************************************************)
EXTENDS Integers, Sequences, FiniteSets, TLC

\* ------------------------------------------------------------------ bounds
\* Closure invocations (epochs of the retry loop) explored per RunTransaction.
MaxEpochs == 3
\* Calls the closure issues through the child handle per invocation.
MaxCalls == 1
\* Closure invocations explored where the server's response headers carry the
\* transaction.
MaxTxnEpochs == 2
\* Logical calls made on the parent handle, and the times the dispatcher
\* sends one of them (transport-level attempts).
MaxLogicalCalls == 3
MaxTries == 2
\* Closure invocations explored where the closure may panic.
MaxPanicEpochs == 2
\* RunTransaction calls made, one after the other, on one parent handle.
MaxRuns == 2
\* Returns of the closure that are remembered where the loop is followed
\* without a bound.
MaxHistory == 2
\* Closure invocations explored in each of two calls that run at a time.
MaxPairEpochs == 1
\* The largest stat value and increment explored.
MaxStat == 2
\* Goroutines that register a close callback with the rpc Server.
MaxAdders == 2
\* Connections the rpc Server accepts.
MaxConns == 2

\* -------------------------------------------------------------- constants
\* Goroutines that may invoke RunTransaction on the parent handle.
Procs == {1, 2}

Nil == "nil"

\* The four recoverable kinds of the switch in RunTransaction.
Retryable ==
    {"ReadWithinUncertaintyIntervalError", "TransactionAbortedError",
     "TransactionPushError", "TransactionRetryError"}

\* Typed errors of a response header that the switch does not recognise.
NonRetryable ==
    {"TransactionStatusError", "RangeNotFoundError",
     "RangeKeyMismatchError", "GenericError"}

\* What a response header's GoError() can be.
ReplyErrors == {Nil} \cup Retryable \cup NonRetryable

\* What the closure can return: any reply error, or an error of its own
\* (errors.New("foo") in the tests).
ClosureErrors == ReplyErrors \cup {"foo"}

\* The error of line 135.
NestedError == "cannot invoke RunTransaction on an already-transactional client"

Methods == {"Put", "EndTransaction"}

\* The routing senders a handle is built over: the sender of the tests
\* (newTestSender), and a server.
TestSender == "test sender"
Server == "server"

\* Whether the response of a routing sender carries a txn in its header.  The
\* sender of the tests never fills it in.  A server may, and does when it
\* answers with TransactionAbortedError or TransactionRetryError: the
\* transaction can only go on with what it returns.
HeaderHasTxn(routing, reply) ==
    CASE routing = TestSender -> {FALSE}
      [] reply \in {"TransactionAbortedError", "TransactionRetryError"} -> {TRUE}
      [] OTHER -> BOOLEAN

NoTxn == [id |-> 0, epoch |-> 0]

\* TxnRetryOptions as the package sets it, durations in milliseconds.  Tag is
\* not set.
TxnRetryOptions ==
    [Backoff |-> 50, MaxBackoff |-> 5000, Constant |-> 2,
     MaxAttempts |-> 0, Tag |-> ""]

\* Range and store ids; 0 stands for "no range" and "no store".
RangeIDs == {0, 1}
StoreIDs == {0, 1}
Stats == {"key-count", "val-count"}
StatVals == 0 .. MaxStat

\* MakeRangeStatKey and MakeStoreStatKey: prefix, encoded id, stat name.
MakeRangeStatKey(rangeID, stat) == <<"range-stat", rangeID, stat>>
MakeStoreStatKey(storeID, stat) == <<"store-stat", storeID, stat>>

\* MVCCEncodeKey: the engine key of a key that has no version.
MVCCEncodeKey(key) == <<"mvcc">> \o key

StatKeys ==
    {MVCCEncodeKey(MakeRangeStatKey(r, stat)) : r \in RangeIDs, stat \in Stats}
      \cup
    {MVCCEncodeKey(MakeStoreStatKey(s, stat)) : s \in StoreIDs, stat \in Stats}

\* The goroutines that call AddCloseCallback, each registering a callback of
\* its own, and the connections the server accepts.
Adders == 1 .. MaxAdders
Conns == 1 .. MaxConns

VARIABLES
    pc,         \* where each RunTransaction call stands
    txn,        \* txnSender.txn: the coordinator's Transaction record
    txnEnd,     \* txnSender.txnEnd
    child,      \* the child handle txnKV: "none", "open", "closed"
    err,        \* the err of the retry closure, then of RunTransaction
    result,     \* what RunTransaction returned ("running" before it returns)
    nextID,     \* source of fresh transaction ids
    nestedRes,  \* inside the closure: what RunTransaction on the child returned
    rets,       \* what each invocation of the closure returned, in order
    calls,      \* calls the closure made in the current invocation
    cET,        \* EndTransaction requests the closure sent in this invocation
    dET,        \* EndTransaction requests the driver sent for this invocation
    abortErr,   \* reply error of the driver's abort ("none": no abort sent)
    sent,       \* requests the routing sender saw in this invocation
    etCommit,   \* of these, the EndTransaction(commit=true)
    etAbort,    \* of these, the EndTransaction(commit=false)
    lastReq,    \* header txn of the last request the routing sender saw
    lastHdr,    \* header txn of the response to it (NoTxn: it carried none)
    endErr,     \* the err on which the last finished epoch ended
    endedBefore,\* the closure sent an EndTransaction in an earlier invocation
    disp,       \* the parent handle's singleCallSender and what it has sent
    hs,         \* a parent handle, its child, the last call through them,
                \* and the senders that were closed
    rd,         \* a call of a read wrapper: what it got and what it returned
    wr,         \* a call of a write wrapper, and a later read of what it wrote
    opt,        \* TxnRetryOptions and what the RunTransaction calls make of it
    st,         \* an engine's stat counters, the last SetStat and the last
                \* GetRangeStat
    srv         \* an rpc Server: its mutex and close callbacks, the
                \* goroutines registering callbacks and serving connections

\* The variables that are not RunTransaction's.
outside == <<disp, hs, rd, wr, opt, st, srv>>

vars == <<pc, txn, txnEnd, child, err, result, nextID, nestedRes, rets, calls,
          cET, dET, abortErr, sent, etCommit, etAbort, lastReq, lastHdr, endErr,
          endedBefore, outside>>

\* RunTransaction's variables.
txnVars == <<pc, txn, txnEnd, child, err, result, nextID, nestedRes, rets,
             calls, cET, dET, abortErr, sent, etCommit, etAbort, lastReq,
             lastHdr, endErr, endedBefore>>

\* What the routing sender has seen of a transaction since its closure was
\* last invoked.  While the closure has been invoked once only, this is all
\* it has seen of the RunTransaction call.
wire == <<sent, etCommit, etAbort>>

\* The last exchange with the routing sender.  Before the first request of an
\* invocation it is still the last exchange of the invocation before, or
\* NoTxn if that one sent nothing.
exchange == <<lastReq, lastHdr>>

\* ---------------------------------------------------------------- helpers
SenderOf_ParentsSender(h) == "singleCallSender"

\* kv.sender of a handle: NewKV wraps in a singleCallSender, RunTransaction
\* builds the child with a txnSender.
SenderOf(h) == IF h = "child" THEN "txnSender" ELSE "singleCallSender"

IsTxnSender_Never(s) == FALSE

\* The type assertion kv.sender.(*txnSender) of RunTransaction.
IsTxnSender(s) == s = "txnSender"

ShouldCommit_Never(e, ended) == FALSE

ShouldCommit_IgnoresErr(e, ended) == ~ended

ShouldCommit_IgnoresEnd(e, ended) == e = Nil

ShouldCommit_Always(e, ended) == TRUE

\* err == nil && !txnSender.txnEnd
ShouldCommit(e, ended) == e = Nil /\ ~ended

RetryStatus_PushBreaks(e) ==
    CASE e = "ReadWithinUncertaintyIntervalError" -> "RetryReset"
      [] e = "TransactionAbortedError" -> "RetryContinue"
      [] e = "TransactionRetryError" -> "RetryReset"
      [] OTHER -> "RetryBreak"

RetryStatus_AbortedBreaks(e) ==
    CASE e = "ReadWithinUncertaintyIntervalError" -> "RetryReset"
      [] e = "TransactionPushError" -> "RetryContinue"
      [] e = "TransactionRetryError" -> "RetryReset"
      [] OTHER -> "RetryBreak"

RetryStatus_RetryBacksOff(e) ==
    CASE e = "ReadWithinUncertaintyIntervalError" -> "RetryReset"
      [] e = "TransactionAbortedError" -> "RetryContinue"
      [] e = "TransactionPushError" -> "RetryContinue"
      [] e = "TransactionRetryError" -> "RetryContinue"
      [] OTHER -> "RetryBreak"

\* The switch on the type of err inside the retry closure.
RetryStatus(e) ==
    CASE e = "ReadWithinUncertaintyIntervalError" -> "RetryReset"
      [] e = "TransactionAbortedError" -> "RetryContinue"
      [] e = "TransactionPushError" -> "RetryContinue"
      [] e = "TransactionRetryError" -> "RetryReset"
      [] OTHER -> "RetryBreak"

SwitchTxn_Restarts(e, t) ==
    IF e \in Retryable THEN [t EXCEPT !.epoch = @ + 1] ELSE t

\* The Transaction record after the switch on err: no case of it touches the
\* record, which is the txnSender's to change.
SwitchTxn(e, t) == t

ShouldAbort_Never(e, ended) == FALSE

ShouldAbort_IgnoresEnd(e, ended) == e # Nil

\* err != nil && !txnSender.txnEnd, the condition of the abort branch.
ShouldAbort(e, ended) == e # Nil /\ ~ended

ReturnValue_Nil(e, ended) == Nil

\* What RunTransaction returns: err from inside the abort branch, nil after it.
ReturnValue(e, ended) == IF e # Nil /\ ~ended THEN e ELSE Nil

\* txnSender.Send marks the transaction ended on every EndTransaction,
\* whatever the reply.
EndsTxn(method) == method = "EndTransaction"

\* RetryWithBackoff: where the loop goes on the status the closure returned.
AfterStatus(status) ==
    CASE status = "RetryReset" -> "loop"
      [] status = "RetryContinue" -> "backoff"
      [] OTHER -> "exit"

\* The txn of the request header as the sender of the handle forwards it:
\* txnSender.Send attaches its Transaction record, a singleCallSender
\* forwards the header as the caller built it.
RequestTxn(s, t) == IF IsTxnSender(s) THEN t ELSE NoTxn

\* The txn the server puts in the header of its response to a transactional
\* request: a new, pristine transaction with TransactionAbortedError, the
\* request's with its epoch incremented with TransactionRetryError, and
\* otherwise the request's (status, timestamp and priority are not modelled).
ServerTxn(reply, req, fresh) ==
    CASE req = NoTxn -> NoTxn
      [] reply = "TransactionAbortedError" -> [id |-> fresh, epoch |-> 0]
      [] reply = "TransactionRetryError" -> [req EXCEPT !.epoch = @ + 1]
      [] OTHER -> req

MergeTxn_Keep(s, cur, hdr, reply) == cur

MergeTxn_EpochOnly(s, cur, hdr, reply) ==
    IF ~IsTxnSender(s) \/ hdr = NoTxn THEN cur
    ELSE [cur EXCEPT !.epoch = hdr.epoch]

MergeTxn_AbortOnly(s, cur, hdr, reply) ==
    IF IsTxnSender(s) /\ hdr # NoTxn /\ reply = "TransactionAbortedError"
    THEN hdr ELSE cur

\* txnSender.Send on the response: a txn in its header is merged into the
\* record, epoch (of the modelled fields) being adopted, and with
\* TransactionAbortedError the new transaction replaces the record.
MergeTxn(s, cur, hdr, reply) ==
    CASE ~IsTxnSender(s) \/ hdr = NoTxn -> cur
      [] reply = "TransactionAbortedError" -> hdr
      [] OTHER -> [cur EXCEPT !.epoch = hdr.epoch]

\* The txn in the header of the response to a request sent now through the
\* child handle, the routing sender answering with reply and putting a txn in
\* the header if has.
ResponseTxn(p, reply, has) ==
    IF has
    THEN ServerTxn(reply, RequestTxn(SenderOf("child"), txn[p]), nextID)
    ELSE NoTxn

\* The Transaction record once that call has returned.
TxnAfterCall(p, reply, has) ==
    MergeTxn(SenderOf("child"), txn[p], ResponseTxn(p, reply, has), reply)

ChildCall_SharedFlag(p, method, commit, reply, has) ==
    /\ nextID' = IF ResponseTxn(p, reply, has).id = nextID
                 THEN nextID + 1 ELSE nextID
    /\ lastReq' = [lastReq EXCEPT ![p] = RequestTxn(SenderOf("child"), txn[p])]
    /\ lastHdr' = [lastHdr EXCEPT ![p] = ResponseTxn(p, reply, has)]
    /\ txnEnd' = [q \in Procs |-> IF EndsTxn(method) THEN TRUE ELSE txnEnd[q]]
    /\ sent' = [sent EXCEPT ![p] = @ + 1]
    /\ etCommit' = [etCommit EXCEPT
                      ![p] = IF method = "EndTransaction" /\ commit THEN @ + 1 ELSE @]
    /\ etAbort' = [etAbort EXCEPT
                      ![p] = IF method = "EndTransaction" /\ ~commit THEN @ + 1 ELSE @]

\* One call through the child handle: KV.Call, txnSender.Send, the routing
\* sender answering with reply, its header carrying a txn if has.  States the
\* effect on the sender, but for its record, and on what the routing sender
\* saw.
ChildCall(p, method, commit, reply, has) ==
    /\ nextID' = IF ResponseTxn(p, reply, has).id = nextID
                 THEN nextID + 1 ELSE nextID
    /\ lastReq' = [lastReq EXCEPT ![p] = RequestTxn(SenderOf("child"), txn[p])]
    /\ lastHdr' = [lastHdr EXCEPT ![p] = ResponseTxn(p, reply, has)]
    /\ txnEnd' = [txnEnd EXCEPT ![p] = IF EndsTxn(method) THEN TRUE ELSE @]
    /\ sent' = [sent EXCEPT ![p] = @ + 1]
    /\ etCommit' = [etCommit EXCEPT
                      ![p] = IF method = "EndTransaction" /\ commit THEN @ + 1 ELSE @]
    /\ etAbort' = [etAbort EXCEPT
                      ![p] = IF method = "EndTransaction" /\ ~commit THEN @ + 1 ELSE @]

\* ------------------------------------------------------------------- Init
Init ==
    /\ pc = [p \in Procs |-> IF p = 1 THEN "idle" ELSE "absent"]
    /\ txn = [p \in Procs |-> NoTxn]
    /\ txnEnd = [p \in Procs |-> FALSE]
    /\ child = [p \in Procs |-> "none"]
    /\ err = [p \in Procs |-> Nil]
    /\ result = [p \in Procs |-> "running"]
    /\ nextID = 1
    /\ nestedRes = [p \in Procs |-> "none"]
    /\ rets = [p \in Procs |-> <<>>]
    /\ calls = [p \in Procs |-> 0]
    /\ cET = [p \in Procs |-> 0]
    /\ dET = [p \in Procs |-> 0]
    /\ abortErr = [p \in Procs |-> "none"]
    /\ sent = [p \in Procs |-> 0]
    /\ etCommit = [p \in Procs |-> 0]
    /\ etAbort = [p \in Procs |-> 0]
    /\ lastReq = [p \in Procs |-> NoTxn]
    /\ lastHdr = [p \in Procs |-> NoTxn]
    /\ endErr = [p \in Procs |-> "none"]
    /\ endedBefore = [p \in Procs |-> FALSE]
    /\ disp = [made |-> 0, rand |-> 1, cur |-> <<>>, log |-> {}]
    /\ hs = [parent |-> <<>>, txnKV |-> <<>>, seen |-> <<>>, runs |-> 0,
             closed |-> {}]
    /\ rd = [wrapper |-> "none", key |-> <<>>,
             reply |-> [err |-> Nil, value |-> <<>>],
             out |-> [ok |-> FALSE, ts |-> [wall_time |-> 0, logical |-> 0],
                      err |-> Nil, decoded |-> FALSE, panics |-> FALSE]]
    /\ wr = [put |-> <<>>, back |-> <<>>]
    /\ opt = [global |-> TxnRetryOptions,
              at |-> [p \in Procs |-> "idle"],
              name |-> [p \in Procs |-> ""],
              retryOpts |-> [p \in Procs |-> <<>>],
              used |-> [p \in Procs |-> <<>>]]
    /\ st = [engine |-> [k \in StatKeys |-> <<>>], set |-> <<>>, got |-> <<>>]
    /\ srv = [closeCallbacks |-> <<>>, mu |-> {},
              adder |-> [g \in Adders |-> "idle"],
              conn |-> [c \in Conns |-> "none"],
              ranged |-> [c \in Conns |-> <<>>],
              invoked |-> [c \in Conns |-> <<>>],
              atLock |-> [c \in Conns |-> <<>>]]

\* ---------------------------------------------------------------- actions
\* RunTransaction entered on handle h: the parent by an application
\* goroutine, the child from inside the closure.  A transactional handle is
\* refused; otherwise the txnSender and the child handle are built.
RunTransaction(p, h) ==
    /\ \/ h = "parent" /\ pc[p] = "idle"
       \/ h = "child" /\ pc[p] = "closure" /\ calls[p] < MaxCalls
    /\ IF IsTxnSender(SenderOf(h))
       THEN /\ nestedRes' = [nestedRes EXCEPT ![p] = NestedError]
            /\ UNCHANGED <<pc, txn, txnEnd, child, err, nextID, rets>>
       ELSE /\ txn' = [txn EXCEPT ![p] = [id |-> nextID, epoch |-> 0]]
            /\ nextID' = nextID + 1
            /\ txnEnd' = [txnEnd EXCEPT ![p] = FALSE]
            /\ child' = [child EXCEPT ![p] = "open"]
            /\ err' = [err EXCEPT ![p] = Nil]
            /\ pc' = [pc EXCEPT ![p] = "loop"]
            /\ rets' = [rets EXCEPT ![p] = <<>>]
            /\ UNCHANGED nestedRes
    /\ calls' = [calls EXCEPT ![p] = IF h = "child" THEN @ + 1 ELSE @]
    /\ UNCHANGED <<result, cET, dET, abortErr, wire, exchange, endErr>>
    /\ UNCHANGED endedBefore
    /\ UNCHANGED outside

Attempt_KeepsTxnEnd(p, epochs) ==
    /\ pc[p] = "loop"
    /\ Len(rets[p]) < epochs
    /\ calls' = [calls EXCEPT ![p] = 0]
    /\ cET' = [cET EXCEPT ![p] = 0]
    /\ dET' = [dET EXCEPT ![p] = 0]
    /\ sent' = [sent EXCEPT ![p] = 0]
    /\ etCommit' = [etCommit EXCEPT ![p] = 0]
    /\ etAbort' = [etAbort EXCEPT ![p] = 0]
    /\ lastReq' = [lastReq EXCEPT ![p] = IF sent[p] = 0 THEN NoTxn ELSE @]
    /\ lastHdr' = [lastHdr EXCEPT ![p] = IF sent[p] = 0 THEN NoTxn ELSE @]
    /\ pc' = [pc EXCEPT ![p] = "closure"]
    /\ UNCHANGED <<txn, txnEnd, child, err, result, nextID, nestedRes, rets,
                   abortErr, endErr>>
    /\ endedBefore' = [endedBefore EXCEPT ![p] = @ \/ cET[p] >= 1]
    /\ UNCHANGED outside

\* The retry closure starts: txnEnd is reset and retryable is invoked.  Up to
\* epochs invocations are explored.
Attempt(p, epochs) ==
    /\ pc[p] = "loop"
    /\ Len(rets[p]) < epochs
    /\ txnEnd' = [txnEnd EXCEPT ![p] = FALSE]
    /\ calls' = [calls EXCEPT ![p] = 0]
    /\ cET' = [cET EXCEPT ![p] = 0]
    /\ dET' = [dET EXCEPT ![p] = 0]
    /\ sent' = [sent EXCEPT ![p] = 0]
    /\ etCommit' = [etCommit EXCEPT ![p] = 0]
    /\ etAbort' = [etAbort EXCEPT ![p] = 0]
    /\ lastReq' = [lastReq EXCEPT ![p] = IF sent[p] = 0 THEN NoTxn ELSE @]
    /\ lastHdr' = [lastHdr EXCEPT ![p] = IF sent[p] = 0 THEN NoTxn ELSE @]
    /\ pc' = [pc EXCEPT ![p] = "closure"]
    /\ UNCHANGED <<txn, child, err, result, nextID, nestedRes, rets, abortErr,
                   endErr>>
    /\ endedBefore' = [endedBefore EXCEPT ![p] = @ \/ cET[p] >= 1]
    /\ UNCHANGED outside

\* The closure issues one call through the child handle, of one of the
\* methods, the routing sender being of kind routing.
ClosureCall(p, methods, routing) ==
    /\ pc[p] = "closure"
    /\ calls[p] < MaxCalls
    /\ \E method \in methods, commit \in BOOLEAN, reply \in ReplyErrors :
       \E has \in HeaderHasTxn(routing, reply) :
         /\ ChildCall(p, method, commit, reply, has)
         /\ txn' = [txn EXCEPT ![p] = TxnAfterCall(p, reply, has)]
         /\ cET' = [cET EXCEPT ![p] = IF method = "EndTransaction" THEN @ + 1 ELSE @]
    /\ calls' = [calls EXCEPT ![p] = @ + 1]
    /\ UNCHANGED <<pc, child, err, result, nestedRes, rets, dET, abortErr,
                   endErr>>
    /\ UNCHANGED endedBefore
    /\ UNCHANGED outside

\* The closure returns e.
ClosureReturn(p) ==
    /\ pc[p] = "closure"
    /\ \E e \in ClosureErrors :
         /\ err' = [err EXCEPT ![p] = e]
         /\ rets' = [rets EXCEPT ![p] = Append(@, e)]
    /\ nestedRes' = [nestedRes EXCEPT ![p] = "none"]
    /\ pc' = [pc EXCEPT ![p] = "returned"]
    /\ UNCHANGED <<txn, txnEnd, child, result, nextID, calls, cET, dET,
                   abortErr, wire, exchange, endErr>>
    /\ UNCHANGED endedBefore
    /\ UNCHANGED outside

\* The rest of the retry closure: commit through the child handle when there
\* was no error and the closure did not end the transaction, the reply's error
\* becoming err; then the switch on err, and RetryWithBackoff acting on the
\* status it yields.
AfterRetryable(p, routing) ==
    /\ pc[p] = "returned"
    /\ LET commits == ShouldCommit(err[p], txnEnd[p])
       IN IF commits
          THEN \E reply \in ReplyErrors :
               \E has \in HeaderHasTxn(routing, reply) :
                 /\ ChildCall(p, "EndTransaction", TRUE, reply, has)
                 /\ dET' = [dET EXCEPT ![p] = @ + 1]
                 /\ err' = [err EXCEPT ![p] = reply]
                 /\ txn' = [txn EXCEPT
                      ![p] = SwitchTxn(reply, TxnAfterCall(p, reply, has))]
          ELSE /\ txn' = [txn EXCEPT ![p] = SwitchTxn(err[p], @)]
               /\ UNCHANGED <<nextID, txnEnd, dET, wire, exchange, err>>
    /\ endErr' = [endErr EXCEPT ![p] = err'[p]]
    /\ pc' = [pc EXCEPT ![p] = AfterStatus(RetryStatus(err'[p]))]
    /\ UNCHANGED <<child, result, nestedRes, rets, calls, cET, abortErr>>
    /\ UNCHANGED endedBefore
    /\ UNCHANGED outside

\* RetryWithBackoff sleeps before the next attempt.
Backoff(p) ==
    /\ pc[p] = "backoff"
    /\ pc' = [pc EXCEPT ![p] = "loop"]
    /\ UNCHANGED <<txn, txnEnd, child, err, result, nextID, nestedRes, rets,
                   calls, cET, dET, abortErr, wire, exchange, endErr>>
    /\ UNCHANGED endedBefore
    /\ UNCHANGED outside

\* The loop is left: abort when there is an error and the transaction is
\* still open, and execute the return statement.
Exit(p, routing) ==
    /\ pc[p] = "exit"
    /\ IF ShouldAbort(err[p], txnEnd[p])
       THEN \E reply \in ReplyErrors :
            \E has \in HeaderHasTxn(routing, reply) :
              /\ ChildCall(p, "EndTransaction", FALSE, reply, has)
              /\ txn' = [txn EXCEPT ![p] = TxnAfterCall(p, reply, has)]
              /\ dET' = [dET EXCEPT ![p] = @ + 1]
              /\ abortErr' = [abortErr EXCEPT ![p] = reply]
       ELSE UNCHANGED <<txn, nextID, txnEnd, dET, abortErr, wire, exchange>>
    /\ result' = [result EXCEPT ![p] = ReturnValue(err[p], txnEnd[p])]
    /\ pc' = [pc EXCEPT ![p] = "deferred"]
    /\ UNCHANGED <<child, err, nestedRes, rets, calls, cET, endErr>>
    /\ UNCHANGED endedBefore
    /\ UNCHANGED outside

\* retryable panics: nothing in RetryWithBackoff or RunTransaction recovers,
\* so the stack unwinds past the rest of the retry closure and past the abort
\* branch to the deferred txnKV.Close(), and the panic goes on to the caller.
ClosurePanic(p) ==
    /\ pc[p] = "closure"
    /\ nestedRes' = [nestedRes EXCEPT ![p] = "none"]
    /\ result' = [result EXCEPT ![p] = "panic"]
    /\ pc' = [pc EXCEPT ![p] = "deferred"]
    /\ UNCHANGED <<txn, txnEnd, child, err, nextID, rets, calls, cET, dET,
                   abortErr, wire, exchange, endErr>>
    /\ UNCHANGED endedBefore
    /\ UNCHANGED outside

Close_LeavesOpen(p) ==
    /\ pc[p] = "deferred"
    /\ pc' = [pc EXCEPT ![p] = "done"]
    /\ UNCHANGED <<txn, txnEnd, child, err, result, nextID, nestedRes, rets,
                   calls, cET, dET, abortErr, wire, exchange, endErr>>
    /\ UNCHANGED endedBefore
    /\ UNCHANGED outside

\* The deferred txnKV.Close() runs and RunTransaction hands back its result.
Close(p) ==
    /\ pc[p] = "deferred"
    /\ child' = [child EXCEPT ![p] = "closed"]
    /\ pc' = [pc EXCEPT ![p] = "done"]
    /\ UNCHANGED <<txn, txnEnd, err, result, nextID, nestedRes, rets, calls,
                   cET, dET, abortErr, wire, exchange, endErr>>
    /\ UNCHANGED endedBefore
    /\ UNCHANGED outside

\* ------------------------------------------------- the single-call sender
\* Readings of the clock; nothing makes them increase.
WallTimes == {1, 2}

\* A client command id: the clock's reading and a random number.
NewCmdID(now, r) == [wall |-> now, random |-> r]

AttemptCmdID_Fresh(assigned, now, r) == NewCmdID(now, r)

\* The command id of a transport-level attempt: the one assigned when the
\* logical call entered the sender.
AttemptCmdID(assigned, now, r) == assigned

\* A logical call enters the parent handle's sender, which assigns its
\* command id.  disp.rand stands for the random numbers: no two draws are
\* taken to be equal.
DispatchCall ==
    /\ disp.cur = <<>>
    /\ disp.made < MaxLogicalCalls
    /\ \E now \in WallTimes :
         disp' = [disp EXCEPT
                    !.made = @ + 1,
                    !.rand = @ + 1,
                    !.cur = <<[no |-> disp.made + 1,
                               cmd |-> NewCmdID(now, disp.rand),
                               tries |-> 0]>>]
    /\ UNCHANGED <<txnVars, hs, rd, wr, opt, st, srv>>

\* The sender forwards the call to the routing sender.  A transport fault
\* makes it back off and send again; any reply ends the logical call.
DispatchSend ==
    /\ disp.cur # <<>>
    /\ \E now \in WallTimes, fault \in BOOLEAN :
         LET c == disp.cur[1]
             id == AttemptCmdID(c.cmd, now, disp.rand)
         IN /\ fault => c.tries + 1 < MaxTries
            /\ disp' = [disp EXCEPT
                          !.log = @ \cup {[no |-> c.no, cmd |-> id,
                                           try |-> c.tries + 1]},
                          !.cur = IF fault
                                  THEN <<[c EXCEPT !.tries = @ + 1]>>
                                  ELSE <<>>]
    /\ UNCHANGED <<txnVars, hs, rd, wr, opt, st, srv>>

NextDispatch == DispatchCall \/ DispatchSend

SpecDispatch == Init /\ [][NextDispatch]_vars

\* ------------------------------------------------------------ the handles
\* A sender is the sequence of its layers, outermost first, the routing
\* sender last: a wrapper's wrapped sender is the rest of the sequence.
RoutingSenders == {"R1", "R2"}
NewSingleCallSender(sender) == <<"singleCallSender">> \o sender
NewTxnSender(sender) == <<"txnSender">> \o sender

\* What applications set on a handle, and in the header of a call.  A header's
\* user priority is a pointer: {} is nil, {n} points to n.
Users == {"", "foo"}
UserPriorities == {0, 101}
Headers == [user : {"", "bar"}, pri : {{}, {0}, {7}}]

\* The header of the driver's EndTransactionRequest.
EmptyHeader == [user |-> "", pri |-> {}]

KVSender_Itself(kv) == kv.sender

\* KV.Sender: the sender wrapped by the handle's sender; anything else than
\* the two wrappers is fatal.
KVSender(kv) ==
    IF Head(kv.sender) \in {"singleCallSender", "txnSender"}
    THEN Tail(kv.sender)
    ELSE <<>>

\* NewKV.
NewKV(sender) ==
    [User |-> "", UserPriority |-> 0, sender |-> NewSingleCallSender(sender)]

\* The child handle RunTransaction builds on kv.
TxnKV(kv) ==
    [User |-> kv.User, UserPriority |-> kv.UserPriority,
     sender |-> NewTxnSender(KVSender(kv))]

CallHeader_Overwrites(kv, hdr) ==
    [user |-> kv.User, pri |-> {kv.UserPriority}]

\* The request header as KV.Call hands it to the handle's sender.
CallHeader(kv, hdr) ==
    [user |-> IF hdr.user = "" THEN kv.User ELSE hdr.user,
     pri |-> IF hdr.pri = {} /\ kv.UserPriority # 0
             THEN {kv.UserPriority} ELSE hdr.pri]

\* An application builds a handle over a routing sender and sets its user
\* and user priority.
HandleNew ==
    /\ hs.parent = <<>>
    /\ \E r \in RoutingSenders, u \in Users, n \in UserPriorities :
         hs' = [hs EXCEPT
                  !.parent = <<[NewKV(<<r>>) EXCEPT !.User = u,
                                                    !.UserPriority = n]>>]
    /\ UNCHANGED <<txnVars, disp, rd, wr, opt, st, srv>>

\* A sender as an object: a txnSender is built anew by every RunTransaction,
\* the parent's singleCallSender and the routing sender are built once.
SenderObject(sender, run) ==
    [sender |-> sender, run |-> IF Head(sender) = "txnSender" THEN run ELSE 0]

\* Close of a wrapping sender: it releases its reference to the sender it
\* wraps and does not close it.  The senders that are closed by it.
SenderClose(sender) == {sender}

KVClose_ClosesWrapped(kv) == SenderClose(kv.sender) \cup SenderClose(KVSender(kv))

\* KV.Close: the handle's sender is closed.
KVClose(kv) == SenderClose(kv.sender)

\* Whether a call handed to sender, of the child of RunTransaction number run
\* or of the parent, passes: none of the layers on its way is closed.
Passes(sender, run, closed) ==
    \A i \in 1..Len(sender) :
        SenderObject(SubSeq(sender, i, Len(sender)), run) \notin closed

\* RunTransaction on the parent handle builds the child handle.
HandleRunTransaction ==
    /\ hs.parent # <<>> /\ hs.txnKV = <<>>
    /\ hs.runs < MaxRuns
    /\ ~IsTxnSender(Head(hs.parent[1].sender))
    /\ hs' = [hs EXCEPT !.txnKV = <<TxnKV(hs.parent[1])>>, !.runs = @ + 1]
    /\ UNCHANGED <<txnVars, disp, rd, wr, opt, st, srv>>

\* RunTransaction returns: the deferred txnKV.Close() runs and the child
\* handle is dropped.
HandleClose ==
    /\ hs.txnKV # <<>>
    /\ hs' = [hs EXCEPT
                 !.txnKV = <<>>,
                 !.closed = @ \cup {SenderObject(s, hs.runs) :
                                      s \in KVClose(hs.txnKV[1])}]
    /\ UNCHANGED <<txnVars, disp, rd, wr, opt, st, srv>>

\* KV.Call on the parent handle ("parent"), on the child handle by the
\* closure ("child"), or on the child handle by the driver for its
\* EndTransaction ("driver"): the header is completed and the call handed to
\* the handle's sender, through whose layers it reaches the routing sender.
HandleCall(by) ==
    LET on == IF by = "parent" THEN hs.parent ELSE hs.txnKV
    IN /\ on # <<>>
       /\ \E hdr \in (IF by = "driver" THEN {EmptyHeader} ELSE Headers) :
            hs' = [hs EXCEPT
                     !.seen = <<[by |-> by, orig |-> hdr,
                                 hdr |-> CallHeader(on[1], hdr),
                                 path |-> on[1].sender,
                                 run |-> hs.runs,
                                 closes |-> Cardinality(hs.closed),
                                 passes |-> Passes(on[1].sender, hs.runs,
                                                   hs.closed)]>>]
       /\ UNCHANGED <<txnVars, disp, rd, wr, opt, st, srv>>

NextHandles ==
    \/ HandleNew
    \/ HandleRunTransaction
    \/ HandleClose
    \/ \E by \in {"parent", "child", "driver"} : HandleCall(by)

SpecHandles == Init /\ [][NextHandles]_vars

\* ------------------------------------------------------ the read wrappers
\* Keys and payloads are byte strings.  An optional field of a message is a
\* set: {} when it is not set, {x} when it is x.
Keys == {<<1>>, <<2>>}
ZeroTimestamp == [wall_time |-> 0, logical |-> 0]
Timestamps == {[wall_time |-> 5, logical |-> 1]}

\* The 8 byte, big-endian form of an integer payload.  The integers here are
\* non-negative and below 2^31: their four high bytes are 0.
BigEndian8(n) ==
    [i \in 1..8 |-> IF i <= 4 THEN 0 ELSE (n \div 256^(8 - i)) % 256]

\* The bytes of a value that its checksum covers.
PayloadBytes(bytes, integer) ==
    IF integer # {} THEN BigEndian8(CHOOSE n \in integer : TRUE) ELSE bytes

\* A checksum of the kind of CRC-32: a polynomial in the bytes, here over 16
\* bits.
RECURSIVE Crc(_)
Crc(s) ==
    IF s = <<>> THEN 0
    ELSE (31 * Crc(SubSeq(s, 1, Len(s) - 1)) + s[Len(s)] + 1) % 65536

\* The checksum of a payload stored under key: of the key, then the payload.
Checksum(key, bytes, integer) == Crc(key \o PayloadBytes(bytes, integer))

\* Value.Verify: an error when the checksum is set and is not that of the
\* value under key.
Verify(value, key) ==
    IF value.checksum \in {{}, {Checksum(key, value.bytes, value.integer)}}
    THEN Nil
    ELSE "IntegrityError"

\* The values a Get response may carry: bytes or an integer, without
\* checksum or with the checksum written under one of the keys, with or
\* without timestamp.
ReadValues ==
    UNION {{[bytes |-> b, integer |-> n, checksum |-> c, timestamp |-> t] :
              c \in {{}} \cup {{Checksum(k, b, n)} : k \in Keys},
              t \in {{}} \cup {{x} : x \in Timestamps}} :
           b \in {<<>>, <<7>>}, n \in {{}, {5}}}

\* The Get responses: the header's error, and the value if there is one.
GetReplies ==
    [err : {Nil, "RangeNotFoundError"},
     value : {<<>>} \cup {<<v>> : v \in ReadValues}]

getInternal_AbsentIsError(key, reply) ==
    IF reply.err # Nil THEN [value |-> <<>>, err |-> reply.err]
    ELSE IF reply.value # <<>>
    THEN [value |-> reply.value, err |-> Verify(reply.value[1], key)]
    ELSE [value |-> <<>>, err |-> "key not found"]

\* KV.getInternal: the value of the Get response and an error.
getInternal(key, reply) ==
    IF reply.err # Nil THEN [value |-> <<>>, err |-> reply.err]
    ELSE IF reply.value # <<>>
    THEN [value |-> reply.value, err |-> Verify(reply.value[1], key)]
    ELSE [value |-> <<>>, err |-> Nil]

Decoded_DecodesIntegers(got, decodeErr) ==
    IF got.err # Nil \/ got.value = <<>>
    THEN [ok |-> FALSE, ts |-> ZeroTimestamp, err |-> got.err,
          decoded |-> FALSE, panics |-> FALSE]
    ELSE IF got.value[1].timestamp = {}
    THEN [ok |-> FALSE, ts |-> ZeroTimestamp, err |-> Nil,
          decoded |-> TRUE, panics |-> TRUE]
    ELSE [ok |-> TRUE, ts |-> CHOOSE x \in got.value[1].timestamp : TRUE,
          err |-> decodeErr, decoded |-> TRUE, panics |-> FALSE]

\* What GetI and GetProto do with what getInternal returned, the decoder
\* answering decodeErr: the results (ok, timestamp, error), whether the
\* decoder was run, and whether dereferencing a value's missing timestamp
\* made the wrapper panic.
Decoded(got, decodeErr) ==
    IF got.err # Nil \/ got.value = <<>>
    THEN [ok |-> FALSE, ts |-> ZeroTimestamp, err |-> got.err,
          decoded |-> FALSE, panics |-> FALSE]
    ELSE IF got.value[1].integer # {}
    THEN [ok |-> FALSE, ts |-> ZeroTimestamp, err |-> "unexpected integer value",
          decoded |-> FALSE, panics |-> FALSE]
    ELSE IF got.value[1].timestamp = {}
    THEN [ok |-> FALSE, ts |-> ZeroTimestamp, err |-> Nil,
          decoded |-> TRUE, panics |-> TRUE]
    ELSE [ok |-> TRUE, ts |-> CHOOSE x \in got.value[1].timestamp : TRUE,
          err |-> decodeErr, decoded |-> TRUE, panics |-> FALSE]

\* KV.GetI, gobFails telling whether the gob decoder rejects the bytes.
GetI(key, reply, gobFails) ==
    Decoded(getInternal(key, reply),
            IF gobFails THEN "gob: decoding error" ELSE Nil)

\* KV.GetProto, protoFails telling whether Unmarshal rejects the bytes.
GetProto(key, reply, protoFails) ==
    Decoded(getInternal(key, reply),
            IF protoFails THEN "proto: unmarshal error" ELSE Nil)

\* An application calls a read wrapper on a handle; the Get it sends is
\* answered with reply.
Read(wrapper) ==
    /\ rd.wrapper = "none"
    /\ \E key \in Keys, reply \in GetReplies, fails \in BOOLEAN :
         rd' = [wrapper |-> wrapper, key |-> key, reply |-> reply,
                out |-> IF wrapper = "GetI" THEN GetI(key, reply, fails)
                        ELSE GetProto(key, reply, fails)]
    /\ UNCHANGED <<txnVars, disp, hs, wr, opt, st, srv>>

NextRead == \E wrapper \in {"GetI", "GetProto"} : Read(wrapper)

SpecRead == Init /\ [][NextRead]_vars

\* RunTransaction over the routing sender of the tests.
Next ==
    \E p \in Procs :
        \/ \E h \in {"parent", "child"} : RunTransaction(p, h)
        \/ Attempt(p, MaxEpochs)
        \/ ClosureCall(p, Methods, TestSender)
        \/ ClosureReturn(p)
        \/ AfterRetryable(p, TestSender)
        \/ Backoff(p)
        \/ Exit(p, TestSender)
        \/ Close(p)

Spec == Init /\ [][Next]_vars

\* RunTransaction over a server that returns the transaction in its response
\* headers, with a closure that reads and writes and leaves the
\* EndTransaction to the driver.
NextTxn ==
    \E p \in Procs :
        \/ RunTransaction(p, "parent")
        \/ Attempt(p, MaxTxnEpochs)
        \/ ClosureCall(p, {"Put"}, Server)
        \/ ClosureReturn(p)
        \/ AfterRetryable(p, Server)
        \/ Backoff(p)
        \/ Exit(p, Server)
        \/ Close(p)

SpecTxn == Init /\ [][NextTxn]_vars

\* RunTransaction with closures that may panic.
NextPanic ==
    \E p \in Procs :
        \/ RunTransaction(p, "parent")
        \/ Attempt(p, MaxPanicEpochs)
        \/ ClosureCall(p, Methods, TestSender)
        \/ ClosureReturn(p)
        \/ ClosurePanic(p)
        \/ AfterRetryable(p, TestSender)
        \/ Backoff(p)
        \/ Exit(p, TestSender)
        \/ Close(p)

SpecPanic == Init /\ [][NextPanic]_vars

\* ----------------------------------------------------- the write wrappers
\* What applications hand to PutI and PutProto, as the bytes of its fields.
Objects == {<<>>, <<3>>, <<3, 4>>}

\* gob.Encoder.Encode: a message is its length, then its bytes.
GobEncode(obj) == <<Len(obj)>> \o obj

\* gogoproto.Marshal: a field is its tag and its length, then its bytes; an
\* empty field is left out.
ProtoMarshal(obj) == IF obj = <<>> THEN <<>> ELSE <<10, Len(obj)>> \o obj

\* Value.InitChecksum: the checksum of the value under key is stored, unless
\* one is set already.
InitChecksum(value, key) ==
    IF value.checksum # {} THEN value
    ELSE [value EXCEPT
            !.checksum = {Checksum(key, value.bytes, value.integer)}]

putInternal_NoChecksum(key, value) == [key |-> key, value |-> value]

\* KV.putInternal: the Put request sent through the handle.
putInternal(key, value) == [key |-> key, value |-> InitChecksum(value, key)]

\* proto.Value{Bytes: data}.
BytesValue(data) ==
    [bytes |-> data, integer |-> {}, checksum |-> {}, timestamp |-> {}]

\* KV.PutI and KV.PutProto: the encoder's error and no request, or the
\* request of putInternal and the error of its response.
PutI(key, obj, encodeFails, replyErr) ==
    IF encodeFails THEN [req |-> <<>>, err |-> "gob: encoding error"]
    ELSE [req |-> <<putInternal(key, BytesValue(GobEncode(obj)))>>,
          err |-> replyErr]

PutProto(key, obj, encodeFails, replyErr) ==
    IF encodeFails THEN [req |-> <<>>, err |-> "proto: marshal error"]
    ELSE [req |-> <<putInternal(key, BytesValue(ProtoMarshal(obj)))>>,
          err |-> replyErr]

\* An application calls a write wrapper on a handle.
Write(wrapper) ==
    /\ wr.put = <<>>
    /\ \E key \in Keys, obj \in Objects, fails \in BOOLEAN,
          replyErr \in {Nil, "RangeNotFoundError"} :
         wr' = [wr EXCEPT
                  !.put = <<IF wrapper = "PutI"
                            THEN PutI(key, obj, fails, replyErr)
                            ELSE PutProto(key, obj, fails, replyErr)>>]
    /\ UNCHANGED <<txnVars, disp, hs, rd, opt, st, srv>>

\* What may come back in place of the bytes that were written.
Payloads == {<<>>, <<0>>, <<1, 3>>, <<1, 4>>, <<10, 1, 3>>, <<10, 1, 4>>}

\* A later Get, through getInternal, of a key: the server answers with the
\* value that was written, stamped with the time of the write, its bytes
\* being those written or others.
ReadBack ==
    /\ wr.put # <<>> /\ wr.back = <<>>
    /\ wr.put[1].req # <<>> /\ wr.put[1].err = Nil
    /\ \E key \in Keys, ts \in Timestamps,
          data \in {wr.put[1].req[1].value.bytes} \cup Payloads :
         LET v == [wr.put[1].req[1].value EXCEPT
                     !.bytes = data, !.timestamp = {ts}]
         IN wr' = [wr EXCEPT
                     !.back = <<[key |-> key, value |-> v,
                                 got |-> getInternal(key, [err |-> Nil,
                                                           value |-> <<v>>])]>>]
    /\ UNCHANGED <<txnVars, disp, hs, rd, opt, st, srv>>

NextWrite ==
    \/ \E wrapper \in {"PutI", "PutProto"} : Write(wrapper)
    \/ ReadBack

SpecWrite == Init /\ [][NextWrite]_vars

\* ---------------------------------------------------- the loop, unbounded
MaxAttempts_Limited == MaxHistory

\* TxnRetryOptions.MaxAttempts: 0 is "retry indefinitely".
MaxAttempts == 0

\* RetryWithBackoff goes on to another attempt after count of them when
\* there is no limit or the limit is not reached.
AttemptsLeft(count) == MaxAttempts = 0 \/ count < MaxAttempts

\* The closure returns e.  Only the last MaxHistory returns are kept, so that
\* a loop that goes on for ever can be followed.
ClosureReturnLast(p) ==
    /\ pc[p] = "closure"
    /\ \E e \in ClosureErrors :
         /\ err' = [err EXCEPT ![p] = e]
         /\ rets' = [rets EXCEPT
                       ![p] = IF Len(@) < MaxHistory THEN Append(@, e)
                              ELSE Append(Tail(@), e)]
    /\ nestedRes' = [nestedRes EXCEPT ![p] = "none"]
    /\ pc' = [pc EXCEPT ![p] = "returned"]
    /\ UNCHANGED <<txn, txnEnd, child, result, nextID, calls, cET, dET,
                   abortErr, wire, exchange, endErr>>
    /\ UNCHANGED endedBefore
    /\ UNCHANGED outside

\* RetryWithBackoff runs the retry closure again, if attempts are left.
AttemptAgain(p) ==
    /\ AttemptsLeft(Len(rets[p]))
    /\ Attempt(p, MaxHistory + 1)

\* RunTransaction with a loop that is followed as long as it goes on.  Every
\* call of the closure and every send returns: no step that can be taken is
\* put off for ever.
NextLive ==
    \E p \in Procs :
        \/ RunTransaction(p, "parent")
        \/ AttemptAgain(p)
        \/ ClosureCall(p, Methods, TestSender)
        \/ ClosureReturnLast(p)
        \/ AfterRetryable(p, TestSender)
        \/ Backoff(p)
        \/ Exit(p, TestSender)
        \/ Close(p)

SpecLive == Init /\ [][NextLive]_vars /\ WF_vars(NextLive)

\* ------------------------------------------------------ the retry options
\* TransactionOptions.Name of a call.
Names == {"", "a", "b"}

SetTag_OnGlobal(global, copy, name) ==
    [global |-> [global EXCEPT !.Tag = name], copy |-> copy]

\* retryOpts.Tag = opts.Name: the package's options and the call's copy
\* after the assignment.
SetTag(global, copy, name) ==
    [global |-> global, copy |-> [copy EXCEPT !.Tag = name]]

\* A goroutine calls RunTransaction on the parent handle with options of some
\* name, and gets past the nested-transaction check.
OptionsEnter(p) ==
    /\ opt.at[p] = "idle"
    /\ \E name \in Names :
         opt' = [opt EXCEPT !.at[p] = "entered", !.name[p] = name,
                            !.used[p] = <<>>]
    /\ UNCHANGED <<txnVars, disp, hs, rd, wr, st, srv>>

\* retryOpts := TxnRetryOptions: the struct is copied into a local of the
\* call.
OptionsCopy(p) ==
    /\ opt.at[p] = "entered"
    /\ opt' = [opt EXCEPT !.at[p] = "copied", !.retryOpts[p] = <<opt.global>>]
    /\ UNCHANGED <<txnVars, disp, hs, rd, wr, st, srv>>

\* retryOpts.Tag = opts.Name.
OptionsTag(p) ==
    /\ opt.at[p] = "copied"
    /\ LET set == SetTag(opt.global, opt.retryOpts[p][1], opt.name[p])
       IN opt' = [opt EXCEPT !.at[p] = "tagged", !.global = set.global,
                             !.retryOpts[p] = <<set.copy>>]
    /\ UNCHANGED <<txnVars, disp, hs, rd, wr, st, srv>>

\* util.RetryWithBackoff(retryOpts, ...) is entered with the call's options.
OptionsRetry(p) ==
    /\ opt.at[p] = "tagged"
    /\ opt' = [opt EXCEPT !.at[p] = "looping", !.used[p] = opt.retryOpts[p]]
    /\ UNCHANGED <<txnVars, disp, hs, rd, wr, st, srv>>

\* RunTransaction returns; its locals are gone.
OptionsReturn(p) ==
    /\ opt.at[p] = "looping"
    /\ opt' = [opt EXCEPT !.at[p] = "idle", !.retryOpts[p] = <<>>]
    /\ UNCHANGED <<txnVars, disp, hs, rd, wr, st, srv>>

NextOptions ==
    \E p \in Procs :
        \/ OptionsEnter(p)
        \/ OptionsCopy(p)
        \/ OptionsTag(p)
        \/ OptionsRetry(p)
        \/ OptionsReturn(p)

SpecOptions == Init /\ [][NextOptions]_vars

\* ------------------------------------------------- two calls at a time
\* Another goroutine that will call RunTransaction on the parent handle.
Go(p) ==
    /\ pc[p] = "absent"
    /\ pc' = [pc EXCEPT ![p] = "idle"]
    /\ UNCHANGED <<txn, txnEnd, child, err, result, nextID, nestedRes, rets,
                   calls, cET, dET, abortErr, wire, exchange, endErr,
                   endedBefore>>
    /\ UNCHANGED outside

\* Two goroutines in RunTransaction on the same parent handle, their steps
\* interleaved in every way.  The closures send nothing themselves; the
\* server returns the transaction in the header of its response to a commit,
\* and what it returns with the response to an abort is left out, the call
\* being over with it.
NextPair ==
    \E p \in Procs :
        \/ Go(p)
        \/ RunTransaction(p, "parent")
        \/ Attempt(p, MaxPairEpochs)
        \/ ClosureReturn(p)
        \/ AfterRetryable(p, Server)
        \/ Backoff(p)
        \/ Exit(p, TestSender)
        \/ Close(p)

SpecPair == Init /\ [][NextPair]_vars

\* ------------------------------------------------- engine stat counters
\* gogoproto.Marshal of Value{Integer: i}: the tag of field 2 as a varint,
\* then the varint of i (one byte for the small values here).
MarshalInteger(i) == <<16, i>>

\* Unmarshal into a Value and GetInteger: the integer field, 0 without one.
UnmarshalInteger(enc) == IF Len(enc) = 2 /\ enc[1] = 16 THEN enc[2] ELSE 0

\* encodeStatValue: not ok for 0, else the marshalled Value.
encodeStatValue(stat) ==
    IF stat = 0 THEN [ok |-> FALSE, enc |-> <<>>]
    ELSE [ok |-> TRUE, enc |-> MarshalInteger(stat)]

\* engine.Put: the value stored under the key is replaced.
EnginePut(engine, key, enc) == [engine EXCEPT ![key] = <<enc>>]

\* GetRangeStat: 0 when nothing is stored under the key, else the integer of
\* the stored Value.
GetRangeStat(engine, rangeID, stat) ==
    LET found == engine[MVCCEncodeKey(MakeRangeStatKey(rangeID, stat))]
    IN IF found = <<>> THEN 0 ELSE UnmarshalInteger(found[1])

\* The store counter read the way GetRangeStat reads the range counter.
GetStoreStat(engine, storeID, stat) ==
    LET found == engine[MVCCEncodeKey(MakeStoreStatKey(storeID, stat))]
    IN IF found = <<>> THEN 0 ELSE UnmarshalInteger(found[1])

\* SetStat: the engine after it.
SetStat(engine, rangeID, storeID, stat, statVal) ==
    LET e == encodeStatValue(statVal)
        afterRange ==
            IF e.ok /\ rangeID # 0
            THEN EnginePut(engine, MVCCEncodeKey(MakeRangeStatKey(rangeID, stat)),
                           e.enc)
            ELSE engine
    IN IF e.ok /\ storeID # 0
       THEN EnginePut(afterRange, MVCCEncodeKey(MakeStoreStatKey(storeID, stat)),
                      e.enc)
       ELSE afterRange

\* A call of SetStat; what was stored under its two keys before is kept.
SetStatCall ==
    \E rangeID \in RangeIDs, storeID \in StoreIDs, stat \in Stats,
       statVal \in StatVals :
        /\ st' = [engine |-> SetStat(st.engine, rangeID, storeID, stat, statVal),
                  set |-> <<[rangeID |-> rangeID, storeID |-> storeID,
                             stat |-> stat, statVal |-> statVal,
                             rangeBefore |->
                               st.engine[MVCCEncodeKey(MakeRangeStatKey(rangeID, stat))],
                             storeBefore |->
                               st.engine[MVCCEncodeKey(MakeStoreStatKey(storeID, stat))]]>>,
                  got |-> <<>>]
        /\ UNCHANGED <<txnVars, disp, hs, rd, wr, opt, srv>>

\* A call of GetRangeStat after a SetStat.
GetRangeStatCall ==
    /\ st.set # <<>>
    /\ \E rangeID \in RangeIDs, stat \in Stats :
         st' = [st EXCEPT
                  !.got = <<[rangeID |-> rangeID, stat |-> stat,
                             val |-> GetRangeStat(st.engine, rangeID, stat)]>>]
    /\ UNCHANGED <<txnVars, disp, hs, rd, wr, opt, srv>>

NextStat == SetStatCall \/ GetRangeStatCall

SpecStat == Init /\ [][NextStat]_vars

\* ------------------------------------------------------- the rpc Server
MuFree_NoExclusion(mu) == TRUE

\* s.mu.Lock() goes on when no goroutine holds the mutex.
MuFree(mu) == mu = {}

\* AddCloseCallback in goroutine g: Lock.
AddLock(g) ==
    /\ srv.adder[g] = "idle"
    /\ MuFree(srv.mu)
    /\ srv' = [srv EXCEPT !.mu = {<<"add", g>>}, !.adder[g] = "locked"]
    /\ UNCHANGED <<txnVars, disp, hs, rd, wr, opt, st>>

\* AddCloseCallback: the callback, named after its goroutine, is appended.
AddAppend(g) ==
    /\ srv.adder[g] = "locked"
    /\ srv' = [srv EXCEPT !.closeCallbacks = Append(@, g),
                          !.adder[g] = "appended"]
    /\ UNCHANGED <<txnVars, disp, hs, rd, wr, opt, st>>

\* AddCloseCallback: the deferred Unlock.
AddUnlock(g) ==
    /\ srv.adder[g] = "appended"
    /\ srv' = [srv EXCEPT !.mu = {}, !.adder[g] = "done"]
    /\ UNCHANGED <<txnVars, disp, hs, rd, wr, opt, st>>

\* Start: a connection is accepted and a goroutine runs serveConn on it.
Accept(c) ==
    /\ srv.conn[c] = "none"
    /\ srv' = [srv EXCEPT !.conn[c] = "serving"]
    /\ UNCHANGED <<txnVars, disp, hs, rd, wr, opt, st>>

\* serveConn: ServeConn returns, the connection is served.
ServeConnReturns(c) ==
    /\ srv.conn[c] = "serving"
    /\ srv' = [srv EXCEPT !.conn[c] = "served"]
    /\ UNCHANGED <<txnVars, disp, hs, rd, wr, opt, st>>

\* serveConn: Lock; atLock keeps what was registered at this moment.
ConnLock(c) ==
    /\ srv.conn[c] = "served"
    /\ MuFree(srv.mu)
    /\ srv' = [srv EXCEPT !.mu = {<<"conn", c>>}, !.conn[c] = "locked",
                          !.atLock[c] = srv.closeCallbacks]
    /\ UNCHANGED <<txnVars, disp, hs, rd, wr, opt, st>>

\* serveConn: the range expression is evaluated, once (a nil slice ranges
\* over nothing, as the skipped loop does).
ConnRange(c) ==
    /\ srv.conn[c] = "locked"
    /\ srv' = [srv EXCEPT !.ranged[c] = srv.closeCallbacks,
                          !.conn[c] = "ranging"]
    /\ UNCHANGED <<txnVars, disp, hs, rd, wr, opt, st>>

\* serveConn: one iteration, cb(conn).
ConnCallback(c) ==
    /\ srv.conn[c] = "ranging"
    /\ Len(srv.invoked[c]) < Len(srv.ranged[c])
    /\ srv' = [srv EXCEPT
                 !.invoked[c] = Append(@, srv.ranged[c][Len(srv.invoked[c]) + 1])]
    /\ UNCHANGED <<txnVars, disp, hs, rd, wr, opt, st>>

\* serveConn: the loop is over, Unlock.
ConnUnlock(c) ==
    /\ srv.conn[c] = "ranging"
    /\ Len(srv.invoked[c]) = Len(srv.ranged[c])
    /\ srv' = [srv EXCEPT !.mu = {}, !.conn[c] = "unlocked"]
    /\ UNCHANGED <<txnVars, disp, hs, rd, wr, opt, st>>

\* serveConn: conn.Close().
ConnClose(c) ==
    /\ srv.conn[c] = "unlocked"
    /\ srv' = [srv EXCEPT !.conn[c] = "closed"]
    /\ UNCHANGED <<txnVars, disp, hs, rd, wr, opt, st>>

NextRPC ==
    \/ \E g \in Adders : AddLock(g) \/ AddAppend(g) \/ AddUnlock(g)
    \/ \E c \in Conns :
         \/ Accept(c)
         \/ ServeConnReturns(c)
         \/ ConnLock(c)
         \/ ConnRange(c)
         \/ ConnCallback(c)
         \/ ConnUnlock(c)
         \/ ConnClose(c)

SpecRPC == Init /\ [][NextRPC]_vars

\* ----------------------------------------------------------------- claims
\* Where a call stands once the retry closure has run to its end.
AfterEpoch == {"loop", "backoff", "exit", "deferred", "done"}

\* RunTransaction is past the retry loop.
LoopLeft == {"exit", "deferred", "done"}

\* The return statement has executed.
Returned == {"deferred", "done"}

\* The errors of the closure that the switch does not retry.
Breaking == NonRetryable \cup {"foo"}

Last(s) == s[Len(s)]

\* C1: RunTransaction invoked on the child handle returns the nested-
\* transaction error at once: the closure is not invoked by it, nothing
\* reaches the routing sender, and the outer transaction's record, its
\* txnEnd flag and its child handle stay as they were.
C1_NestedRefused ==
    [][\A p \in Procs :
         RunTransaction(p, "child") =>
           /\ nestedRes'[p] = NestedError
           /\ pc' = pc /\ rets' = rets
           /\ wire' = wire
           /\ txn' = txn /\ txnEnd' = txnEnd /\ child' = child]_vars

\* A closure that called RunTransaction on its child handle, inside an open
\* transaction.
C1_Witness ==
    \E p \in Procs :
        /\ pc[p] = "closure" /\ nestedRes[p] = NestedError
        /\ child[p] = "open" /\ txn[p].id # 0

\* The first invocation of the closure returned nil without ending the
\* transaction and the commit the driver then sent succeeded.
C2_Case(p) ==
    /\ Len(rets[p]) = 1 /\ rets[p][1] = Nil
    /\ pc[p] \in AfterEpoch
    /\ cET[p] = 0 /\ err[p] = Nil

\* C2: when the closure returns nil without ending the transaction and the
\* commit succeeds, the closure is invoked once only, the routing sender sees
\* exactly one EndTransaction in the whole call, with commit = true, and
\* RunTransaction returns nil.
C2_CommitOnSuccess ==
    \A p \in Procs :
        C2_Case(p) =>
          /\ pc[p] \in LoopLeft
          /\ dET[p] = 1 /\ etCommit[p] = 1 /\ etAbort[p] = 0
          /\ pc[p] \in Returned => result[p] = Nil

C2_Witness ==
    \E p \in Procs :
        C2_Case(p) /\ pc[p] = "done" /\ etCommit[p] = 1 /\ result[p] = Nil

\* The first invocation of the closure returned an error the switch does not
\* retry, and sent no EndTransaction.
C3_Case(p) ==
    /\ Len(rets[p]) = 1 /\ rets[p][1] \in Breaking
    /\ cET[p] = 0

\* C3: when the closure returns a non-retryable error e without having ended
\* the transaction, the routing sender sees exactly one EndTransaction in the
\* whole call, with commit = false, sent after the closure returned and before
\* RunTransaction returns, and RunTransaction returns e.
C3_AbortOnError ==
    \A p \in Procs :
        C3_Case(p) =>
          /\ pc[p] \in {"returned"} \cup LoopLeft
          /\ pc[p] \in {"returned", "exit"} => etCommit[p] + etAbort[p] = 0
          /\ pc[p] \in Returned =>
               /\ etAbort[p] = 1 /\ etCommit[p] = 0 /\ dET[p] = 1
               /\ result[p] = rets[p][1]

C3_Witness ==
    \E p \in Procs :
        /\ C3_Case(p) /\ pc[p] = "deferred"
        /\ etAbort[p] = 1 /\ result[p] = "foo"

\* The first invocation of the closure sent exactly one EndTransaction, with
\* commit = true, and returned nil.
C4_Case(p) ==
    /\ Len(rets[p]) = 1 /\ rets[p][1] = Nil
    /\ pc[p] \in AfterEpoch
    /\ cET[p] = 1 /\ etCommit[p] >= 1

\* C4: when the closure itself sends EndTransaction(commit=true) and returns
\* nil, the driver sends none: the routing sender sees exactly one
\* EndTransaction in the whole call and RunTransaction returns nil.
C4_NoSecondEnd ==
    \A p \in Procs :
        C4_Case(p) =>
          /\ pc[p] \in LoopLeft
          /\ dET[p] = 0 /\ etCommit[p] = 1 /\ etAbort[p] = 0
          /\ pc[p] \in Returned => result[p] = Nil

C4_Witness ==
    \E p \in Procs :
        C4_Case(p) /\ pc[p] = "done" /\ result[p] = Nil /\ dET[p] = 0

\* C5 as stated: once the first invocation returned a retryable error and the
\* second nil, the closure has been invoked exactly twice and RunTransaction
\* returns nil.
C5_AsStated ==
    \A p \in Procs :
        (Len(rets[p]) >= 2 /\ rets[p][1] \in Retryable /\ rets[p][2] = Nil) =>
          /\ Len(rets[p]) = 2 /\ pc[p] # "closure"
          /\ pc[p] \in Returned => result[p] = Nil

\* C5, amended: a first invocation that returns one of the four retryable
\* errors is followed by a second; if that one returns nil and the commit the
\* driver sends for it (if any) succeeds, there is no third invocation and
\* RunTransaction returns nil.
C5_RetryThenCommit ==
    \A p \in Procs :
        /\ (Len(rets[p]) = 1 /\ rets[p][1] \in Retryable /\ pc[p] \in AfterEpoch)
             => pc[p] \in {"loop", "backoff"}
        /\ (/\ Len(rets[p]) = 2 /\ rets[p][1] \in Retryable /\ rets[p][2] = Nil
            /\ pc[p] \in AfterEpoch /\ err[p] = Nil)
             => /\ pc[p] \in LoopLeft
                /\ pc[p] \in Returned => result[p] = Nil

C5_Witness ==
    \E p \in Procs :
        /\ Len(rets[p]) = 2 /\ rets[p][1] = "TransactionPushError" /\ rets[p][2] = Nil
        /\ pc[p] = "done" /\ err[p] = Nil /\ dET[p] = 1 /\ result[p] = Nil

\* C6 as stated: whenever an invocation of the closure returns an error outside
\* the four retryable kinds, the closure is not invoked again and
\* RunTransaction returns that very error.
C6_AsStated ==
    \A p \in Procs :
        (Len(rets[p]) >= 1 /\ Last(rets[p]) \in Breaking) =>
          /\ pc[p] \in {"returned"} \cup LoopLeft
          /\ pc[p] \in Returned => result[p] = Last(rets[p])

C8_AsStated ==
    \A p \in Procs :
        (pc[p] \in Returned /\ cET[p] >= 1 /\ Last(rets[p]) \in Breaking)
          => result[p] = Last(rets[p])

\* C9: when the abort the driver sends fails, RunTransaction still returns the
\* error that caused the abort, which is the closure's, and never nil.
C9_AbortFailureNotReturned ==
    \A p \in Procs :
        (pc[p] \in Returned /\ abortErr[p] \notin {"none", Nil}) =>
          /\ result[p] = Last(rets[p])
          /\ result[p] = err[p]
          /\ result[p] # Nil

\* An abort that failed with an error other than the one that caused it.
C9_Witness ==
    \E p \in Procs :
        /\ pc[p] = "done" /\ abortErr[p] = "TransactionAbortedError"
        /\ result[p] = "RangeNotFoundError"

\* An invocation of the closure and what the driver does for it are over.
EpochOver(p) ==
    \/ pc[p] \in {"loop", "backoff"} /\ Len(rets[p]) >= 1
    \/ pc[p] \in Returned

\* C10 as stated: every epoch sees exactly one EndTransaction, the closure's
\* or the driver's.
C10_AsStated ==
    \A p \in Procs : EpochOver(p) => cET[p] + dET[p] = 1

\* C10, amended: in every epoch the driver sends at most one EndTransaction,
\* and none when the closure sent one.  When the closure sent none the driver
\* sends exactly one, unless the closure returned one of the four retryable
\* errors: that epoch ends with no EndTransaction at all.
C10_OneEndPerEpoch ==
    \A p \in Procs :
        EpochOver(p) =>
          /\ dET[p] <= 1
          /\ cET[p] >= 1 => dET[p] = 0
          /\ cET[p] = 0 => dET[p] = (IF Last(rets[p]) \in Retryable THEN 0 ELSE 1)

\* An epoch retried without any EndTransaction, then one ended by the driver.
C10_Witness ==
    \E p \in Procs :
        /\ pc[p] = "done" /\ Len(rets[p]) = 2 /\ rets[p][1] \in Retryable
        /\ cET[p] = 0 /\ dET[p] = 1

\* EndTransaction(commit=true) requests the driver sent for this invocation:
\* its EndTransaction requests less the abort, if it sent one.
DriverCommits(p) == dET[p] - (IF abortErr[p] = "none" THEN 0 ELSE 1)

\* C11: the driver sends EndTransaction(commit=true) only for an invocation of
\* the closure that returned nil and did not end the transaction; never for
\* one that returned an error, retryable or not.
C11_CommitOnlyAfterNil ==
    \A p \in Procs :
        DriverCommits(p) >= 1 =>
          /\ Len(rets[p]) >= 1 /\ Last(rets[p]) = Nil
          /\ cET[p] = 0
          /\ DriverCommits(p) = 1

\* The driver committed after a nil return; and an invocation that returned
\* an error was retried without a commit being sent for it.
C11_Witness ==
    \E p \in Procs :
        /\ Len(rets[p]) = 2 /\ rets[p][1] \in Retryable /\ rets[p][2] = Nil
        /\ pc[p] = "done" /\ DriverCommits(p) = 1 /\ etCommit[p] = 1

\* This step forwards a request of p's transaction to the routing sender.
Forwards(p) == sent'[p] = sent[p] + 1

\* C12: every request forwarded to the routing sender through the child
\* handle, by a call of the closure or by an EndTransaction of the driver,
\* carries in its header the coordinator's Transaction record as it stands
\* when the request is forwarded.
C12_RequestCarriesRecord ==
    [][\A p \in Procs :
         Forwards(p) => txn[p] # NoTxn /\ lastReq'[p] = txn[p]]_vars

\* A request has carried a record that an earlier response had changed.
C12_Witness ==
    \E p \in Procs :
        /\ sent[p] >= 1 /\ lastReq[p] = [id |-> 1, epoch |-> 1]
        /\ pc[p] = "closure"

\* C13: when the response to a request sent through the child handle carries
\* a txn in its header, the coordinator's record equals that txn once the send
\* has returned; when it carries none, the record is what it was.
C13_RecordFollowsResponse ==
    [][\A p \in Procs :
         Forwards(p) =>
           txn'[p] = IF lastHdr'[p] # NoTxn THEN lastHdr'[p] ELSE txn[p]]_vars

\* A response has replaced the record by a new transaction, and another has
\* left the record as it was.
C13_Witness ==
    \E p \in Procs :
        /\ pc[p] = "returned" /\ sent[p] = 1
        /\ lastReq[p] = [id |-> 2, epoch |-> 0]
        /\ lastHdr[p] = NoTxn /\ txn[p] = lastReq[p]

\* This step forwards the first request of an invocation of the closure that
\* follows one in which requests were sent: lastReq and lastHdr are still the
\* last exchange of that earlier invocation, endErr the err it ended on.
FirstOfNext(p) ==
    /\ pc[p] \in {"closure", "returned"}
    /\ sent[p] = 0 /\ sent'[p] = 1
    /\ lastReq[p] # NoTxn

\* The last response of the invocation before carried a txn that differs from
\* its request's in id (a new transaction), or in epoch.
NewTxnReturned(p) == lastHdr[p] # NoTxn /\ lastHdr[p].id # lastReq[p].id
EpochBumpReturned(p) ==
    /\ lastHdr[p] # NoTxn /\ lastHdr[p].id = lastReq[p].id
    /\ lastHdr[p].epoch = lastReq[p].epoch + 1

SameEpochErrors == {"ReadWithinUncertaintyIntervalError", "TransactionPushError"}

\* C16 as stated: after an epoch that ends with
\* ReadWithinUncertaintyIntervalError or TransactionPushError the requests of
\* the next invocation carry the txn.id and the txn.epoch of the requests of
\* the failed one.
C16_AsStated ==
    [][\A p \in Procs :
         FirstOfNext(p) /\ endErr[p] \in SameEpochErrors =>
           lastReq'[p] = lastReq[p]]_vars

\* C16: after an epoch that ends with ReadWithinUncertaintyIntervalError or
\* TransactionPushError, the first request of the next invocation carries the
\* record as the last response of the failed invocation left it: the retry
\* itself changes neither id nor epoch, so they are those of the failed
\* invocation's last request unless the response to it carried a new
\* transaction or an incremented epoch.
C16_RetryKeepsRecord ==
    [][\A p \in Procs :
         FirstOfNext(p) /\ endErr[p] \in SameEpochErrors =>
           /\ lastReq'[p] = IF lastHdr[p] # NoTxn THEN lastHdr[p] ELSE lastReq[p]
           /\ ~NewTxnReturned(p) /\ ~EpochBumpReturned(p) =>
                lastReq'[p] = lastReq[p]]_vars

\* The driver's commit was answered with TransactionPushError, and the next
\* invocation's first request carried the id and epoch of that commit.
C16_Witness ==
    \E p \in Procs :
        /\ Len(rets[p]) = 1 /\ rets[p][1] = Nil
        /\ endErr[p] = "TransactionPushError"
        /\ pc[p] = "closure" /\ sent[p] = 1
        /\ lastReq[p] = [id |-> 1, epoch |-> 0]

Given(n) == IF n = 0 THEN {} ELSE {n}

\* C18: a request sent through the child handle reaches the routing sender
\* with the parent handle's User where its header had no user, and with the
\* parent handle's UserPriority where it had no user priority, the driver's
\* EndTransaction requests included; a user or user priority that the caller
\* set is left as it is.
C18_ChildCarriesParentsUser ==
    \A i \in DOMAIN hs.seen :
        LET c == hs.seen[i]
            parent == hs.parent[1]
        IN c.by \in {"child", "driver"} =>
             /\ c.hdr.user = IF c.orig.user = "" THEN parent.User ELSE c.orig.user
             /\ c.hdr.pri = IF c.orig.pri = {} THEN Given(parent.UserPriority)
                            ELSE c.orig.pri

\* The driver's EndTransaction reached the routing sender with the user and
\* the user priority of the parent handle.
C18_Witness ==
    /\ hs.seen # <<>> /\ hs.seen[1].by = "driver"
    /\ hs.parent[1].User = "foo" /\ hs.parent[1].UserPriority = 101
    /\ hs.seen[1].hdr = [user |-> "foo", pri |-> {101}]

\* C19: the child handle's Sender() is the routing sender that the parent
\* handle's Sender() returns, the one given to NewKV, and a request sent
\* through the child handle passes the txnSender and then that routing
\* sender: not the parent's singleCallSender, nor any other sender.
C19_ChildOverSameRoutingSender ==
    hs.txnKV # <<>> =>
      /\ KVSender(hs.txnKV[1]) = KVSender(hs.parent[1])
      /\ \E r \in RoutingSenders : KVSender(hs.parent[1]) = <<r>>
      /\ \A i \in DOMAIN hs.seen :
           hs.seen[i].by \in {"child", "driver"} =>
             hs.seen[i].path = <<"txnSender">> \o KVSender(hs.parent[1])

\* A call of the closure went through the txnSender to the routing sender R2
\* that the parent handle was built over.
C19_Witness ==
    /\ hs.seen # <<>> /\ hs.seen[1].by = "child"
    /\ hs.parent[1].sender = <<"singleCallSender", "R2">>
    /\ hs.seen[1].path = <<"txnSender", "R2">>

\* C20: GetI and GetProto, when the Get response carries no error and no
\* value, return false, the zero timestamp and no error: a key that is not
\* there is not an error.
C20_AbsentKeyIsNotAnError ==
    rd.wrapper # "none" /\ rd.reply.err = Nil /\ rd.reply.value = <<>> =>
      /\ ~rd.out.ok /\ rd.out.ts = ZeroTimestamp /\ rd.out.err = Nil
      /\ ~rd.out.decoded /\ ~rd.out.panics

\* GetProto was answered with neither value nor error and returned so.
C20_Witness ==
    /\ rd.wrapper = "GetProto" /\ rd.reply = [err |-> Nil, value |-> <<>>]
    /\ ~rd.out.ok /\ rd.out.err = Nil

\* A read wrapper was called and the Get response carries, without error, a
\* value.
ValueRead == rd.wrapper # "none" /\ rd.reply.err = Nil /\ rd.reply.value # <<>>

BytesValueRead ==
    /\ ValueRead
    /\ rd.reply.value[1].integer = {} /\ rd.reply.value[1].timestamp # {}

\* C22 as stated: when the value read fails verification against the key, or
\* fails to decode, the wrapper returns an error together with the timestamp
\* of the value.
C22_AsStated ==
    BytesValueRead =>
      /\ Verify(rd.reply.value[1], rd.key) # Nil => rd.out.err # Nil
      /\ rd.out.err # Nil => rd.out.ts \in rd.reply.value[1].timestamp

\* C23: the Put that PutI or PutProto sends carries a value of bytes only
\* whose checksum is that of the bytes under the key of the request; when a
\* later Get of that key returns the value as written, verification in
\* getInternal succeeds, and when the bytes come back altered, or the value
\* is read under another key, it fails.
C23_ChecksumRoundTrip ==
    \A put \in {wr.put[i] : i \in DOMAIN wr.put} :
    \A req \in {put.req[i] : i \in DOMAIN put.req} :
        /\ req.value.integer = {}
        /\ req.value.checksum = {Checksum(req.key, req.value.bytes, {})}
        /\ \A back \in {wr.back[i] : i \in DOMAIN wr.back} :
             IF back.key = req.key /\ back.value.bytes = req.value.bytes
             THEN back.got.err = Nil
             ELSE back.got.err = "IntegrityError"

\* Bytes written by PutI that a Get of the same key returns altered.
C23_Witness ==
    /\ wr.put # <<>> /\ wr.back # <<>>
    /\ wr.put[1].req[1].value.bytes = <<1, 3>>
    /\ wr.back[1].key = wr.put[1].req[1].key
    /\ wr.back[1].value.bytes = <<1, 4>>
    /\ wr.back[1].got.err = "IntegrityError"

\* C24 as stated: when RunTransaction has terminated with an error or a panic
\* and neither the closure, in its last invocation, nor a commit of the
\* driver has ended the transaction, an EndTransaction(commit=false) has been
\* sent.
C24_AsStated ==
    \A p \in Procs :
        (pc[p] \in Returned /\ result[p] # Nil /\ cET[p] = 0 /\ etCommit[p] = 0)
          => etAbort[p] >= 1

\* RunTransaction is past the nested-transaction check and has not handed
\* control back.
Running == {"loop", "closure", "returned", "backoff", "exit", "deferred"}

\* C25: once past the nested-transaction check the child handle is open until
\* RunTransaction hands control back, and is closed then, however the call
\* ends; it is closed by one step only, the deferred Close, which finds it
\* open, and from then on nothing more reaches the routing sender: every
\* EndTransaction of the call was sent before.
C25_ChildClosedOnceAfterLastEnd ==
    /\ [](\A p \in Procs :
            /\ pc[p] \in Running => child[p] = "open"
            /\ pc[p] = "done" => child[p] = "closed")
    /\ [][\A p \in Procs :
            /\ Close(p) => child[p] = "open" /\ child'[p] = "closed"
            /\ child'[p] # child[p] /\ child'[p] = "closed" =>
                 pc[p] = "deferred" /\ pc'[p] = "done" /\ wire' = wire
            /\ child[p] = "closed" => child'[p] = "closed" /\ wire' = wire]_vars

\* The child handle closed after the driver's abort.
C25_Witness ==
    \E p \in Procs :
        /\ pc[p] = "done" /\ child[p] = "closed"
        /\ etAbort[p] = 1 /\ dET[p] = 1 /\ result[p] = "foo"

BackoffErrors == {"TransactionAbortedError", "TransactionPushError"}
ImmediateErrors == {"ReadWithinUncertaintyIntervalError", "TransactionRetryError"}

\* C26: when an epoch ends, the driver goes to the backoff wait exactly when
\* the error the epoch ended on is TransactionAbortedError or
\* TransactionPushError, and straight back to the head of the loop exactly
\* when it is ReadWithinUncertaintyIntervalError or TransactionRetryError; the
\* wait is entered from the end of an epoch only, and the closure is invoked
\* from the head of the loop only.
C26_BackoffOnAbortedAndPush ==
    [][\A p \in Procs :
         /\ (pc[p] = "returned" /\ pc'[p] # "returned") =>
              /\ pc'[p] = "backoff" <=> err'[p] \in BackoffErrors
              /\ pc'[p] = "loop" <=> err'[p] \in ImmediateErrors
              /\ endErr'[p] = err'[p]
         /\ (pc'[p] = "backoff" /\ pc[p] # "backoff") => pc[p] = "returned"
         /\ (pc[p] = "backoff" /\ pc'[p] # "backoff") => pc'[p] = "loop"
         /\ (pc'[p] = "closure" /\ pc[p] # "closure") => pc[p] = "loop"]_vars

\* The wait after a commit that failed with TransactionPushError.
C26_Witness ==
    \E p \in Procs :
        /\ pc[p] = "backoff" /\ endErr[p] = "TransactionPushError"
        /\ Last(rets[p]) = Nil /\ dET[p] = 1

\* C27: in an epoch in which the closure sent an EndTransaction through the
\* child handle, whatever the response to it, the transaction counts as
\* ended and the driver sends no EndTransaction, neither the commit after a
\* nil return nor the abort after an error that is not retried: every
\* EndTransaction the routing sender sees in that epoch is the closure's.
C27_NoDriverEndAfterClosureEnd ==
    \A p \in Procs :
        cET[p] >= 1 =>
          /\ txnEnd[p]
          /\ dET[p] = 0 /\ abortErr[p] = "none"
          /\ etCommit[p] + etAbort[p] = cET[p]

\* The closure sent an EndTransaction and returned a typed error that is not
\* retried; RunTransaction is over and the driver sent nothing.
C27_Witness ==
    \E p \in Procs :
        /\ pc[p] = "done" /\ cET[p] = 1
        /\ Last(rets[p]) = "TransactionStatusError"
        /\ dET[p] = 0 /\ etAbort[p] + etCommit[p] = 1

\* C28: txnEnd is false when an invocation of the closure starts, whatever
\* the invocations before did: after an earlier invocation in which the
\* closure ended the transaction (and which was retried), an invocation that
\* returns nil without ending the transaction is followed by the driver's
\* EndTransaction(commit=true).
C28_TxnEndResetEveryEpoch ==
    \A p \in Procs :
        /\ (pc[p] = "closure" /\ cET[p] = 0) => ~txnEnd[p]
        /\ (/\ endedBefore[p] /\ pc[p] \in AfterEpoch
            /\ Last(rets[p]) = Nil /\ cET[p] = 0)
             => dET[p] = 1 /\ etCommit[p] = 1 /\ etAbort[p] = 0

\* The closure ended the transaction and returned a retryable error, then
\* returned nil without ending it, and the driver committed.
C28_Witness ==
    \E p \in Procs :
        /\ endedBefore[p] /\ Len(rets[p]) = 2
        /\ rets[p][1] = "TransactionRetryError" /\ rets[p][2] = Nil
        /\ cET[p] = 0 /\ dET[p] = 1 /\ etCommit[p] = 1
        /\ pc[p] = "done" /\ result[p] = Nil

\* The invocation before the current one returned nil and its epoch ended on
\* a retryable error: the commit the driver sent for it failed with it.
CommitRetried(p) ==
    /\ Len(rets[p]) >= 2 /\ rets[p][Len(rets[p]) - 1] = Nil
    /\ endErr[p] \in Retryable

\* C29: when the closure returned nil and the commit the driver sends fails
\* with one of the four retryable errors, RunTransaction does not return: it
\* goes back to the loop (through the backoff wait or not), from where the
\* only way on is another invocation of the closure; and when that
\* invocation returns nil without ending the transaction the driver sends an
\* EndTransaction(commit=true) again.
C29_FailedCommitIsRetried ==
    [][\A p \in Procs :
         /\ (/\ pc[p] = "returned" /\ pc'[p] # "returned"
             /\ err[p] = Nil /\ cET[p] = 0 /\ err'[p] \in Retryable)
              => /\ pc'[p] \in {"loop", "backoff"}
                 /\ result'[p] = "running"
                 /\ dET'[p] = 1 /\ etCommit'[p] = 1
         /\ (pc[p] \in {"loop", "backoff"} /\ pc'[p] # pc[p])
              => pc'[p] \in {"loop", "closure"}
         /\ (/\ pc[p] = "returned" /\ pc'[p] # "returned"
             /\ CommitRetried(p) /\ err[p] = Nil /\ cET[p] = 0)
              => /\ etCommit'[p] = etCommit[p] + 1
                 /\ dET'[p] = 1 /\ etAbort'[p] = 0]_vars

\* Two invocations that returned nil without ending the transaction: the
\* commit of the first was retried, the commit of the second succeeded.
C29_Witness ==
    \E p \in Procs :
        /\ rets[p] = <<Nil, Nil>> /\ cET[p] = 0
        /\ dET[p] = 1 /\ etCommit[p] = 1 /\ err[p] = Nil
        /\ pc[p] = "done" /\ result[p] = Nil /\ ~endedBefore[p]

\* C30: the Close of the child handle when RunTransaction returns closes the
\* child's txnSender only: the routing sender and the parent's sender are
\* never closed by it, every call through the parent handle passes, and so
\* does every call through the child handle of a further RunTransaction on
\* the same parent.
C30_RoutingSenderStaysOpen ==
    hs.parent # <<>> =>
      /\ \A i \in 1..Len(hs.parent[1].sender) :
           SenderObject(SubSeq(hs.parent[1].sender, i,
                               Len(hs.parent[1].sender)), 0) \notin hs.closed
      /\ \A c \in hs.closed : Head(c.sender) = "txnSender"
      /\ \A i \in DOMAIN hs.seen : hs.seen[i].passes

\* After the child handle of a first RunTransaction was closed, a call through
\* the child handle of a second one reached the same routing sender.
C30_Witness ==
    /\ hs.seen # <<>> /\ hs.seen[1].by = "child"
    /\ hs.seen[1].run = 2 /\ hs.seen[1].closes = 1 /\ hs.seen[1].passes
    /\ KVSender(hs.txnKV[1]) = KVSender(hs.parent[1])

\* An epoch is over, and the error it ended on.
EndedOn(p, errors) ==
    pc[p] \in {"loop", "backoff", "exit"} /\ endErr[p] \in errors

\* C31: every step being taken in the end, RunTransaction returns once an
\* epoch has ended on nil or on an error that is not retried, without
\* another invocation of the closure; and after an epoch that ended on one
\* of the four retryable errors the closure is invoked again, however many
\* epochs went before.
C31_ReturnsOrRetriesForEver ==
    /\ [][\A p \in Procs :
            (pc[p] = "returned" /\ pc'[p] # "returned") =>
              (pc'[p] = "exit" <=> err'[p] \notin Retryable)]_vars
    /\ [][\A p \in Procs :
            (pc[p] \in LoopLeft /\ pc'[p] # pc[p]) => pc'[p] \in Returned]_vars
    /\ \A p \in Procs :
         EndedOn(p, {Nil} \cup Breaking) ~> (pc[p] = "done")
    /\ \A p \in Procs :
         EndedOn(p, Retryable) ~> (pc[p] = "closure")

\* The closure is invoked again although it has returned MaxHistory times
\* already, the last epoch having ended on a retryable error.
C31_Witness ==
    \E p \in Procs :
        /\ pc[p] = "closure" /\ Len(rets[p]) = MaxHistory
        /\ endErr[p] \in Retryable /\ endedBefore[p]

\* C32: TxnRetryOptions is never changed by RunTransaction: the name of the
\* transaction is set as tag on the call's copy only, and whatever other
\* calls ran before or run at the same time, the options a call hands to
\* RetryWithBackoff are those of the package with its own name as tag.
C32_RetryOptionsNotModified ==
    /\ opt.global = TxnRetryOptions
    /\ \A p \in Procs :
         opt.used[p] # <<>> =>
           opt.used[p] = <<[TxnRetryOptions EXCEPT !.Tag = opt.name[p]]>>

\* Two calls in their retry loops at the same time, under different names.
C32_Witness ==
    /\ opt.at[1] = "looping" /\ opt.at[2] = "looping"
    /\ opt.used[1][1].Tag = "a" /\ opt.used[2][1].Tag = "b"
    /\ opt.global.Tag = ""

\* What belongs to the RunTransaction call of p alone: its txnSender's
\* record and flag, and what the routing sender saw of it.
OwnState(p) ==
    <<txn[p], txnEnd[p], child[p], err[p], lastReq[p], lastHdr[p], sent[p],
      etCommit[p], etAbort[p], dET[p], abortErr[p]>>

\* C33: of two RunTransaction calls on one parent handle, each has its own
\* Transaction record and its own txnEnd flag.  No step of one call, an
\* EndTransaction and the merge of its response included, changes anything
\* of the other; the records have different ids and a request carries the id
\* of its own call's record only; and whatever the other call does, the
\* commit after a nil return and the abort after an error that is not
\* retried are sent.
C33_ConcurrentCallsIndependent ==
    /\ [][\A p, q \in Procs :
            (p # q /\ (pc'[p] # pc[p] \/ Forwards(p))) =>
              OwnState(q)' = OwnState(q)]_vars
    /\ [](\A p, q \in Procs :
            p # q =>
              /\ txn[p].id # 0 => txn[p].id # txn[q].id
              /\ lastReq[p].id # 0 => lastReq[p].id # txn[q].id)
    /\ [](\A p \in Procs :
            /\ (pc[p] \in AfterEpoch /\ Len(rets[p]) >= 1 /\ Last(rets[p]) = Nil)
                 => dET[p] = 1 /\ etCommit[p] = 1
            /\ (pc[p] \in Returned /\ Last(rets[p]) \in Breaking)
                 => dET[p] = 1 /\ etAbort[p] = 1)

\* One call has sent its commit and has its flag set, the other is still in
\* its closure; then the other has committed too.
C33_Witness ==
    /\ pc[1] = "done" /\ etCommit[1] = 1 /\ txnEnd[1]
    /\ pc[2] = "done" /\ etCommit[2] = 1 /\ result[2] = Nil
    /\ txn[1].id # txn[2].id /\ lastHdr[1] # NoTxn /\ lastHdr[2] # NoTxn

\* C34: after SetStat(engine, r, s, stat, v) the range counter of a non-zero
\* r reads v through GetRangeStat and the store counter of a non-zero s
\* holds v, whatever v is and whatever the counters held before; what is
\* stored for a zero id is as it was.
C34_AsStated ==
    st.set # <<>> =>
      LET c == st.set[1]
      IN /\ c.rangeID # 0 =>
              GetRangeStat(st.engine, c.rangeID, c.stat) = c.statVal
         /\ (st.got # <<>> /\ c.rangeID # 0 /\ st.got[1].rangeID = c.rangeID
               /\ st.got[1].stat = c.stat) =>
              st.got[1].val = c.statVal
         /\ c.storeID # 0 =>
              GetStoreStat(st.engine, c.storeID, c.stat) = c.statVal
         /\ c.rangeID = 0 =>
              st.engine[MVCCEncodeKey(MakeRangeStatKey(0, c.stat))] = c.rangeBefore
         /\ c.storeID = 0 =>
              st.engine[MVCCEncodeKey(MakeStoreStatKey(0, c.stat))] = c.storeBefore

\* s is the first Len(s) elements of t.
IsPrefix(s, t) == Len(s) <= Len(t) /\ \A i \in 1 .. Len(s) : s[i] = t[i]

\* C35: for every connection served, no callback is invoked with it while
\* it is served; from the Lock on, the goroutine of the connection holds
\* the mutex, the registered callbacks stay as they were at the Lock, and
\* those invoked so far are the first of them, in registration order, none
\* twice; once the mutex is released each of them has been invoked, exactly
\* once and in that order, and only then is the connection closed.  Every
\* invocation is under the mutex, on a connection that is not closed, and
\* no registration takes effect while a run holds the mutex.
C35_CloseCallbacksRunUnderMutex ==
    /\ [](\A c \in Conns :
            /\ srv.conn[c] \in {"none", "serving", "served"} =>
                 srv.invoked[c] = <<>>
            /\ srv.conn[c] \in {"locked", "ranging"} =>
                 /\ srv.mu = {<<"conn", c>>}
                 /\ srv.closeCallbacks = srv.atLock[c]
                 /\ IsPrefix(srv.invoked[c], srv.atLock[c])
            /\ srv.conn[c] \in {"unlocked", "closed"} =>
                 /\ srv.invoked[c] = srv.atLock[c]
                 /\ IsPrefix(srv.atLock[c], srv.closeCallbacks)
            /\ \A i, j \in 1 .. Len(srv.invoked[c]) :
                 srv.invoked[c][i] = srv.invoked[c][j] => i = j)
    /\ [][\A c \in Conns :
            /\ srv.invoked[c]' # srv.invoked[c] =>
                 /\ srv.mu = {<<"conn", c>>}
                 /\ srv.conn[c]' \notin {"unlocked", "closed"}
            /\ srv.conn[c] \in {"locked", "ranging"} =>
                 srv.closeCallbacks' = srv.closeCallbacks]_vars

\* Both connections are closed; the first ran the one callback registered
\* by then, the second, after another registration, ran both in order.
C35_Witness ==
    /\ srv.conn[1] = "closed" /\ srv.invoked[1] = <<1>>
    /\ srv.conn[2] = "closed" /\ srv.invoked[2] = <<1, 2>>
    /\ srv.closeCallbacks = <<1, 2>>

====
